---- MODULE Spec2Model ----
(***************************************************************************)
(* SEBI circular indexer: the identifier normaliser, the self-reference    *)
(* filter of the PDF extractor, and the KnowledgeGraphAnalyzer (graph      *)
(* loading, direct-reference resolution, breadth-first traversal).         *)
(*                                                                         *)
(* A Python str is a sequence of one-character strings; "" is << >>.       *)
(* A Python dict is kept in insertion order: the node table is a sequence  *)
(* of node records with pairwise distinct ids.                             *)
(***************************************************************************)
EXTENDS Integers, Sequences, FiniteSets, TLC

VARIABLES
    pc,                   \* position of the running script
    impl,                 \* "scripts": src/scripts/*.py, "legacy": src/*.py
    nodes,                \* KnowledgeGraphAnalyzer.nodes
    edges,                \* KnowledgeGraphAnalyzer.edges
    reference_map,        \* KnowledgeGraphAnalyzer.reference_map
    circular_to_node,     \* KnowledgeGraphAnalyzer.circular_to_node
    circular_references,  \* argument of find_direct_references
    direct_refs,          \* value returned by find_direct_references
    max_depth,            \* argument of find_indirect_references
    indirect_by_level,    \* local of find_indirect_references
    visited,              \* local of find_indirect_references
    queue,                \* local of find_indirect_references
    result,               \* value returned by find_indirect_references
    circular_number,      \* PDFCircularExtractor.circular_number
    references,           \* local of extract_circular_references
    filtered_references,  \* value returned by extract_circular_references
    n_in,                 \* argument of the normaliser
    n_out,                \* successive values returned by the normaliser
    g_nodes,              \* CircularKnowledgeGraph.nodes
    g_edges,              \* CircularKnowledgeGraph.edges
    extraction_stats,     \* CircularKnowledgeGraph.extraction_stats
    added,                \* the add_circular calls made so far, in order
    graph_file,           \* graph_outputs/circular_knowledge_graph.json
    workers               \* the locals of the concurrent analyzer calls

vars == <<pc, impl, nodes, edges, reference_map, circular_to_node,
          circular_references, direct_refs, max_depth, indirect_by_level,
          visited, queue, result, circular_number, references,
          filtered_references, n_in, n_out, g_nodes, g_edges,
          extraction_stats, added, graph_file, workers>>

graphVars == <<nodes, edges, reference_map, circular_to_node>>
resolveVars == <<circular_references, direct_refs>>
traverseVars == <<max_depth, indirect_by_level, visited, queue, result>>
extractVars == <<circular_number, references, filtered_references>>
normVars == <<n_in, n_out>>
buildVars == <<g_nodes, g_edges, extraction_stats, added>>

(***************************************************************************)
(* Bounds of the model.                                                    *)
(***************************************************************************)
MaxLen == 3      \* longest string handed to the normaliser
MaxRefs == 1     \* longest reference list of a node in a snapshot
MaxCands == 2    \* largest candidate set handed to the resolver
MaxDepth == 2    \* largest max_depth tried besides the default

\* max_depth: int = 5, and main() passes max_depth=5
default_max_depth == 5

(***************************************************************************)
(* Strings.                                                                *)
(***************************************************************************)
Alphabet == {"X", "Y", "x", "1", "/", " ", "-"}

RECURSIVE StringsUpTo(_)
StringsUpTo(n) ==
    IF n = 0 THEN {<< >>}
    ELSE LET shorter == StringsUpTo(n - 1)
         IN  shorter \cup {Append(s, c) : s \in {t \in shorter : Len(t) = n - 1}, c \in Alphabet}

Range(s) == {s[i] : i \in 1..Len(s)}

LowerLetters == <<"a","b","c","d","e","f","g","h","i","j","k","l","m",
                  "n","o","p","q","r","s","t","u","v","w","x","y","z">>
UpperLetters == <<"A","B","C","D","E","F","G","H","I","J","K","L","M",
                  "N","O","P","Q","R","S","T","U","V","W","X","Y","Z">>
Digits == {"0","1","2","3","4","5","6","7","8","9"}

\* str.upper(), one character
UpperChar(c) ==
    IF \E i \in 1..Len(LowerLetters) : LowerLetters[i] = c
    THEN UpperLetters[CHOOSE i \in 1..Len(LowerLetters) : LowerLetters[i] = c]
    ELSE c

\* str.upper()
upper(s) == [i \in 1..Len(s) |-> UpperChar(s[i])]

\* the character class [A-Z0-9]
IsAZ09(c) == c \in Range(UpperLetters) \cup Digits

\* re.sub(r'[^A-Z0-9]', '', s)
sub_non_alnum(s) == SelectSeq(s, IsAZ09)

IsNotSpace(c) == c # " "

\* s.replace(' ', '')
replace_spaces(s) == SelectSeq(s, IsNotSpace)

\* Python's  a in b  on strings
IsSubstring(a, b) ==
    \E i \in 0..(Len(b) - Len(a)) : SubSeq(b, i + 1, i + Len(a)) = a

\* s.split(sep)[0]: the part of s before the first sep
SplitFirst(s, sep) ==
    IF \E i \in 1..Len(s) : s[i] = sep
    THEN SubSeq(s, 1, (CHOOSE i \in 1..Len(s) :
                          s[i] = sep /\ \A j \in 1..(i - 1) : s[j] # sep) - 1)
    ELSE s

\* s.strip(): leading and trailing white space removed
strip(s) ==
    IF \A i \in 1..Len(s) : s[i] = " " THEN << >>
    ELSE LET first == CHOOSE i \in 1..Len(s) :
                          s[i] # " " /\ \A j \in 1..(i - 1) : s[j] = " "
             last  == CHOOSE i \in 1..Len(s) :
                          s[i] # " " /\ \A j \in (i + 1)..Len(s) : s[j] = " "
         IN  SubSeq(s, first, last)

(***************************************************************************)
(* The identifier normaliser.                                              *)
(***************************************************************************)
\* a mutant: re.sub(..., count=1) removes only the first offending character
SubFirstNonAlnum(s) ==
    IF \E i \in 1..Len(s) : ~IsAZ09(s[i])
    THEN LET k == CHOOSE i \in 1..Len(s) :
                      ~IsAZ09(s[i]) /\ \A j \in 1..(i - 1) : IsAZ09(s[j])
         IN  SubSeq(s, 1, k - 1) \o SubSeq(s, k + 1, Len(s))
    ELSE s

NormalizeFirstOnly(circ_no) ==
    IF circ_no = << >> THEN << >> ELSE SubFirstNonAlnum(upper(circ_no))

\* normalize_circular_no of extract_circular_references
normalize_circular_no(circ_no) ==
    IF circ_no = << >> THEN << >> ELSE sub_non_alnum(upper(circ_no))

\* normalize of _fuzzy_match_reference
normalize(circ_no) ==
    IF circ_no = << >> THEN << >> ELSE sub_non_alnum(upper(circ_no))

(***************************************************************************)
(* Identifiers the inputs are drawn from: "X", "Y", "X/Y" and "XY" (the    *)
(* same identifier up to punctuation, and both contain "X" and "Y").       *)
(***************************************************************************)
sX == <<"X">>
sY == <<"Y">>
sXsY == <<"X", "/", "Y">>
sXY == <<"X", "Y">>

NodeIdPool == {sX, sY}
CircPool == {<< >>, sX, sXsY}
RefPool == {sX, sY, sXsY}
CandPool == {sX, sY, sXY}

\* the sequences of at most n pairwise distinct elements of S
RECURSIVE SeqsNoDup(_, _)
SeqsNoDup(S, n) ==
    IF n = 0 THEN {<< >>}
    ELSE LET shorter == SeqsNoDup(S, n - 1)
             longest == {t \in shorter : Len(t) = n - 1}
         IN  shorter \cup {s \in {Append(t, e) : t \in longest, e \in S} :
                              \A i \in 1..(n - 1) : s[i] # s[n]}

RefLists == SeqsNoDup(RefPool, MaxRefs)
CandOrders == SeqsNoDup(CandPool, MaxCands)

\* a node of the snapshot: 'id', 'circular_no', 'references' and
\* 'reference_count' ('filename', 'title' and 'date' are never read by the
\* analyzer)
NodeRecords ==
    {[id |-> i, circular_no |-> c, references |-> r, reference_count |-> Len(r)] :
        i \in NodeIdPool, c \in CircPool, r \in RefLists}

\* the edges the builder appends for one node: one per reference
NodeEdges(n) ==
    [i \in 1..Len(n.references) |-> [source |-> n.id, target_reference |-> n.references[i]]]

RECURSIVE EdgesOf(_)
EdgesOf(ns) == IF ns = << >> THEN << >> ELSE NodeEdges(Head(ns)) \o EdgesOf(Tail(ns))

\* the snapshots graph_outputs/circular_knowledge_graph.json can hold after
\* a build over pairwise distinct file names
Snapshots ==
    {[nodes |-> ns, edges |-> EdgesOf(ns)] :
        ns \in {s \in SeqsNoDup(NodeRecords, Cardinality(NodeIdPool)) :
                   \A i, j \in 1..Len(s) : i # j => s[i].id # s[j].id}}

\* extraction_stats and the worker table before anything ran
NoStats == [total_pdfs |-> 0, successful_extractions |-> 0, failed_extractions |-> 0]
NoWorkers == << >>

(***************************************************************************)
(* Python dicts.                                                           *)
(***************************************************************************)
EmptyDict == [k \in {} |-> << >>]

DictSet(d, k, v) == IF k \in DOMAIN d THEN [d EXCEPT ![k] = v] ELSE d @@ (k :> v)

\* the ids of a node table, and the node stored under an id
NodeIds(ns) == {ns[i].id : i \in 1..Len(ns)}
NodeAt(ns, id) == ns[CHOOSE i \in 1..Len(ns) : ns[i].id = id]

\* nodes[n.id] = n: a known key keeps its position, a new key goes last
NodePut(ns, n) ==
    IF n.id \in NodeIds(ns)
    THEN [i \in 1..Len(ns) |-> IF ns[i].id = n.id THEN n ELSE ns[i]]
    ELSE Append(ns, n)

\* {node['id']: node for node in data['nodes']}
RECURSIVE NodeDict(_, _)
NodeDict(data_nodes, acc) ==
    IF data_nodes = << >> THEN acc
    ELSE NodeDict(Tail(data_nodes), NodePut(acc, Head(data_nodes)))

(***************************************************************************)
(* KnowledgeGraphAnalyzer.load_graph                                       *)
(***************************************************************************)
\* a mutant: a source already listed under the target is not appended again
RECURSIVE BuildReferenceMapDistinct(_, _)
BuildReferenceMapDistinct(es, acc) ==
    IF es = << >> THEN acc
    ELSE LET target == Head(es).target_reference
             source == Head(es).source
             sofar  == IF target \in DOMAIN acc THEN acc[target] ELSE << >>
         IN  BuildReferenceMapDistinct(Tail(es),
                 DictSet(acc, target,
                         IF source \in Range(sofar) THEN sofar ELSE Append(sofar, source)))

\* for edge in self.edges: self.reference_map[target].append(source)
RECURSIVE BuildReferenceMap(_, _)
BuildReferenceMap(es, acc) ==
    IF es = << >> THEN acc
    ELSE LET target == Head(es).target_reference
             source == Head(es).source
             sofar  == IF target \in DOMAIN acc THEN acc[target] ELSE << >>
         IN  BuildReferenceMap(Tail(es), DictSet(acc, target, Append(sofar, source)))

\* a mutant: a circular_no already in the index keeps its first node
RECURSIVE BuildCircularToNodeFirstWins(_, _)
BuildCircularToNodeFirstWins(ns, acc) ==
    IF ns = << >> THEN acc
    ELSE LET circ_no == Head(ns).circular_no
         IN  BuildCircularToNodeFirstWins(Tail(ns),
                 IF circ_no # << >> /\ circ_no \notin DOMAIN acc
                 THEN DictSet(acc, circ_no, Head(ns).id) ELSE acc)

\* for node_id, node in self.nodes.items(): if circ_no: circular_to_node[circ_no] = node_id
RECURSIVE BuildCircularToNode(_, _)
BuildCircularToNode(ns, acc) ==
    IF ns = << >> THEN acc
    ELSE LET circ_no == Head(ns).circular_no
         IN  BuildCircularToNode(Tail(ns),
                 IF circ_no # << >> THEN DictSet(acc, circ_no, Head(ns).id) ELSE acc)

\* the file on disk: absent, or the JSON document export_to_json wrote
NoFile == [exists |-> FALSE, nodes |-> << >>, edges |-> << >>]
GraphFile(data) == [exists |-> TRUE, nodes |-> data.nodes, edges |-> data.edges]

\* a mutant: the missing file is reported and the analyzer is handed out
FileNotFoundSwallowed == "loaded"

\* except FileNotFoundError: print(...); raise  -- out of __init__ as well
FileNotFound == "raised"

\* __init__ leaves nodes, edges and the indexes empty and calls load_graph
load_graph ==
    /\ pc = "start"
    /\ IF graph_file.exists
       THEN LET data == graph_file
            IN  /\ nodes' = NodeDict(data.nodes, << >>)
                /\ edges' = data.edges
                /\ reference_map' = BuildReferenceMap(data.edges, EmptyDict)
                /\ circular_to_node' =
                       BuildCircularToNode(NodeDict(data.nodes, << >>), EmptyDict)
                /\ pc' = "loaded"
       ELSE /\ UNCHANGED graphVars
            /\ pc' = FileNotFound
    /\ UNCHANGED <<impl, resolveVars, traverseVars, extractVars, normVars, buildVars,
                   graph_file, workers>>

(***************************************************************************)
(* KnowledgeGraphAnalyzer._fuzzy_match_reference                           *)
(***************************************************************************)
\* src/scripts: both sides reduced to [A-Z0-9]
FuzzyHitScripts(ref, node) ==
    LET ref_normalized == normalize(ref)
        circ_no_normalized == normalize(node.circular_no)
    IN  \/ IsSubstring(ref_normalized, circ_no_normalized)
        \/ IsSubstring(circ_no_normalized, ref_normalized)

\* src: both sides with blanks removed and upper-cased
FuzzyHitLegacy(ref, node) ==
    LET ref_normalized == upper(replace_spaces(ref))
        circ_no == upper(replace_spaces(node.circular_no))
    IN  \/ IsSubstring(ref_normalized, circ_no)
        \/ IsSubstring(circ_no, ref_normalized)

RECURSIVE FuzzyScan(_, _)
FuzzyScan(ref, ns) ==
    IF ns = << >> THEN << >>
    ELSE LET hit == IF impl = "scripts" THEN FuzzyHitScripts(ref, Head(ns))
                    ELSE FuzzyHitLegacy(ref, Head(ns))
         IN  (IF hit THEN <<Head(ns).id>> ELSE << >>) \o FuzzyScan(ref, Tail(ns))

fuzzy_match_reference(ref) == FuzzyScan(ref, nodes)

(***************************************************************************)
(* KnowledgeGraphAnalyzer.find_direct_references                           *)
(* An entry of direct_refs is the key 'ref' with its details; a key absent *)
(* from the details dict ('node_id', 'referenced_by', 'matches') is << >>. *)
(***************************************************************************)
NoValue == << >>

InGraph(ref, node_id) ==
    [ref |-> ref, type |-> "in_graph", node_id |-> node_id,
     references |-> NodeAt(nodes, node_id).references,
     referenced_by |-> NoValue, matches |-> NoValue]

ReferencedExternal(ref) ==
    [ref |-> ref, type |-> "referenced_external", node_id |-> NoValue,
     references |-> << >>, referenced_by |-> reference_map[ref], matches |-> NoValue]

\* a mutant: a fuzzy match hands on the references of the first node matched
FuzzyMatchWithReferences(ref, matches) ==
    [ref |-> ref, type |-> "fuzzy_match", node_id |-> NoValue,
     references |-> NodeAt(nodes, matches[1]).references,
     referenced_by |-> NoValue, matches |-> matches]

FuzzyMatch(ref, matches) ==
    [ref |-> ref, type |-> "fuzzy_match", node_id |-> NoValue,
     references |-> << >>, referenced_by |-> NoValue, matches |-> matches]

External(ref) ==
    [ref |-> ref, type |-> "external", node_id |-> NoValue,
     references |-> << >>, referenced_by |-> NoValue, matches |-> NoValue]

\* a mutant: the reverse-reference index is consulted before the alias index
ResolveExternalFirst(ref) ==
    IF ref \in NodeIds(nodes) THEN InGraph(ref, ref)
    ELSE IF ref \in DOMAIN reference_map THEN ReferencedExternal(ref)
    ELSE IF ref \in DOMAIN circular_to_node THEN InGraph(ref, circular_to_node[ref])
    ELSE LET matches == fuzzy_match_reference(ref)
         IN  IF matches # << >> THEN FuzzyMatch(ref, matches) ELSE External(ref)

\* a mutant: the alias index is searched by normal form
ResolveNormalizedAlias(ref) ==
    LET keys == {k \in DOMAIN circular_to_node : normalize(k) = normalize(ref)}
    IN  IF ref \in NodeIds(nodes) THEN InGraph(ref, ref)
        ELSE IF keys # {} THEN InGraph(ref, circular_to_node[CHOOSE k \in keys : TRUE])
        ELSE IF ref \in DOMAIN reference_map THEN ReferencedExternal(ref)
        ELSE LET matches == fuzzy_match_reference(ref)
             IN  IF matches # << >> THEN FuzzyMatch(ref, matches) ELSE External(ref)

\* the body of  for ref in circular_references
Resolve(ref) ==
    IF ref \in NodeIds(nodes) THEN InGraph(ref, ref)
    ELSE IF ref \in DOMAIN circular_to_node THEN InGraph(ref, circular_to_node[ref])
    ELSE IF ref \in DOMAIN reference_map THEN ReferencedExternal(ref)
    ELSE LET matches == fuzzy_match_reference(ref)
         IN  IF matches # << >> THEN FuzzyMatch(ref, matches) ELSE External(ref)

IsRecorded(e) == e.type # "external"

\* a mutant: a candidate that matches nothing gets no entry
ResolveAllButExternal(order) ==
    SelectSeq([i \in 1..Len(order) |-> Resolve(order[i])], IsRecorded)

\* the dict the loop fills, in the order the candidate set is iterated
ResolveAll(order) == [i \in 1..Len(order) |-> Resolve(order[i])]

\* a mutant: 'if self.reference_map[ref]' in place of 'ref in self.reference_map'
SubscriptedAlways(ref) == {ref}

\* the keys the loop body reads with self.reference_map[ref]: the ones of
\* the referenced_external branch, which 'ref in self.reference_map' guards
Subscripted(ref) == IF Resolve(ref).type = "referenced_external" THEN {ref} ELSE {}

\* reading d[k] on a defaultdict(list) stores [] under a key it lacks
DefaultDictRead(d, keys) ==
    [k \in (DOMAIN d) \cup keys |-> IF k \in DOMAIN d THEN d[k] ELSE << >>]

find_direct_references ==
    /\ pc = "loaded"
    /\ \E order \in CandOrders :
          /\ circular_references' = Range(order)
          /\ direct_refs' = ResolveAll(order)
          /\ reference_map' =
                 DefaultDictRead(reference_map,
                                 UNION {Subscripted(order[i]) : i \in 1..Len(order)})
    /\ pc' = "resolved"
    /\ UNCHANGED <<impl, nodes, edges, circular_to_node, traverseVars, extractVars,
                   normVars, buildVars, graph_file, workers>>

\* the candidates as the extractor hands them on: in the case and with the
\* blanks the PDF text has
sXsp == <<"X", " ">>
RawCandPool == {sX, <<"x">>, sXsp}
RawCandOrders == SeqsNoDup(RawCandPool, MaxCands)

\* find_direct_references on such candidates
find_direct_references_raw ==
    /\ pc = "loaded"
    /\ \E order \in RawCandOrders :
          /\ circular_references' = Range(order)
          /\ direct_refs' = ResolveAll(order)
          /\ reference_map' =
                 DefaultDictRead(reference_map,
                                 UNION {Subscripted(order[i]) : i \in 1..Len(order)})
    /\ pc' = "resolved"
    /\ UNCHANGED <<impl, nodes, edges, circular_to_node, traverseVars, extractVars,
                   normVars, buildVars, graph_file, workers>>

(***************************************************************************)
(* KnowledgeGraphAnalyzer.find_indirect_references                         *)
(* The three locals travel together as [ibl, visited, queue].              *)
(***************************************************************************)
EmptyTraversal == [ibl |-> EmptyDict, visited |-> {}, queue |-> << >>]

\* indirect_by_level[level].add(ref) on a defaultdict(set)
LevelAdd(ibl, level, ref) ==
    DictSet(ibl, level, (IF level \in DOMAIN ibl THEN ibl[level] ELSE {}) \cup {ref})

\* a mutant: the  if ref not in visited  test is dropped
RECURSIVE AddRefsUnchecked(_, _, _)
AddRefsUnchecked(refs, level, st) ==
    IF refs = << >> THEN st
    ELSE AddRefsUnchecked(Tail(refs), level,
             [ibl |-> LevelAdd(st.ibl, level, Head(refs)),
              visited |-> st.visited \cup {Head(refs)},
              queue |-> Append(st.queue, <<Head(refs), level>>)])

\* for ref in refs: if ref not in visited: record it at `level`, mark, enqueue
RECURSIVE AddRefs(_, _, _)
AddRefs(refs, level, st) ==
    IF refs = << >> THEN st
    ELSE AddRefs(Tail(refs), level,
             IF Head(refs) \notin st.visited
             THEN [ibl |-> LevelAdd(st.ibl, level, Head(refs)),
                   visited |-> st.visited \cup {Head(refs)},
                   queue |-> Append(st.queue, <<Head(refs), level>>)]
             ELSE st)

\* for ref, details in direct_refs.items(): visited.add(ref); seed level 2
RECURSIVE SeedLoop(_, _)
SeedLoop(drs, st) ==
    IF drs = << >> THEN st
    ELSE LET details == Head(drs)
             marked == [st EXCEPT !.visited = @ \cup {details.ref}]
         IN  SeedLoop(Tail(drs),
                 IF details.references # << >>
                 THEN AddRefs(details.references, 2, marked)
                 ELSE marked)

Depths == (0..MaxDepth) \cup {default_max_depth}

\* the call and the initialisation loop
find_indirect_references ==
    /\ pc = "resolved"
    /\ \E d \in Depths : max_depth' = d
    /\ LET st == SeedLoop(direct_refs, EmptyTraversal)
       IN  /\ indirect_by_level' = st.ibl
           /\ visited' = st.visited
           /\ queue' = st.queue
    /\ pc' = "bfs"
    /\ UNCHANGED <<impl, graphVars, resolveVars, result, extractVars, normVars, buildVars, graph_file, workers>>

\* a mutant: an identifier that is neither id nor alias is looked up by
\* _fuzzy_match_reference
LookupNodeFuzzy(current_ref) ==
    IF current_ref \in NodeIds(nodes) THEN current_ref
    ELSE IF current_ref \in DOMAIN circular_to_node THEN circular_to_node[current_ref]
    ELSE IF fuzzy_match_reference(current_ref) # << >>
         THEN fuzzy_match_reference(current_ref)[1]
    ELSE NoValue

\* node_id = current_ref if in nodes, else its alias, else None
LookupNode(current_ref) ==
    IF current_ref \in NodeIds(nodes) THEN current_ref
    ELSE IF current_ref \in DOMAIN circular_to_node THEN circular_to_node[current_ref]
    ELSE NoValue

\* a mutant: 'if level > max_depth', one level too many is expanded
BfsIterationPastDepth(st, depth) ==
    LET current_ref == Head(st.queue)[1]
        level == Head(st.queue)[2]
        node_id == LookupNode(current_ref)
        st0 == [st EXCEPT !.queue = Tail(st.queue)]
    IN  IF level > depth \/ node_id = NoValue THEN st0
        ELSE AddRefs(NodeAt(nodes, node_id).references, level + 1, st0)

\* a mutant: the references of a dequeued identifier are recorded two levels
\* further down
BfsIterationSkipLevel(st, depth) ==
    LET current_ref == Head(st.queue)[1]
        level == Head(st.queue)[2]
        node_id == LookupNode(current_ref)
        st0 == [st EXCEPT !.queue = Tail(st.queue)]
    IN  IF level >= depth \/ node_id = NoValue THEN st0
        ELSE AddRefs(NodeAt(nodes, node_id).references, level + 2, st0)

\* the body of  while queue  on the locals st
BfsIteration(st, depth) ==
    LET current_ref == Head(st.queue)[1]
        level == Head(st.queue)[2]
        node_id == LookupNode(current_ref)
        st0 == [st EXCEPT !.queue = Tail(st.queue)]
    IN  IF level >= depth \/ node_id = NoValue THEN st0
        ELSE AddRefs(NodeAt(nodes, node_id).references, level + 1, st0)

\* the loop run until the queue is empty, and the dict it returns
RECURSIVE RunBfs(_, _)
RunBfs(st, depth) ==
    IF st.queue = << >> THEN st.ibl ELSE RunBfs(BfsIteration(st, depth), depth)

\* a mutant: the head of the queue is read but never removed
BfsStepNoPop ==
    /\ pc = "bfs"
    /\ queue # << >>
    /\ LET current_ref == Head(queue)[1]
           level == Head(queue)[2]
           node_id == LookupNode(current_ref)
           st0 == [ibl |-> indirect_by_level, visited |-> visited, queue |-> queue]
           st == IF level >= max_depth \/ node_id = NoValue THEN st0
                 ELSE AddRefs(NodeAt(nodes, node_id).references, level + 1, st0)
       IN  /\ indirect_by_level' = st.ibl
           /\ visited' = st.visited
           /\ queue' = st.queue
    /\ UNCHANGED <<pc, impl, graphVars, resolveVars, max_depth, result, extractVars, normVars, buildVars, graph_file, workers>>

\* a mutant: 'if max_depth and level >= max_depth', so that 0 bounds nothing
BfsStepZeroUnbounded ==
    /\ pc = "bfs"
    /\ queue # << >>
    /\ LET current_ref == Head(queue)[1]
           level == Head(queue)[2]
           node_id == LookupNode(current_ref)
           st0 == [ibl |-> indirect_by_level, visited |-> visited, queue |-> Tail(queue)]
           st == IF (max_depth # 0 /\ level >= max_depth) \/ node_id = NoValue THEN st0
                 ELSE AddRefs(NodeAt(nodes, node_id).references, level + 1, st0)
       IN  /\ indirect_by_level' = st.ibl
           /\ visited' = st.visited
           /\ queue' = st.queue
    /\ UNCHANGED <<pc, impl, graphVars, resolveVars, max_depth, result, extractVars, normVars, buildVars, graph_file, workers>>

\* one iteration of  while queue
BfsStep ==
    /\ pc = "bfs"
    /\ queue # << >>
    /\ LET st == BfsIteration([ibl |-> indirect_by_level, visited |-> visited,
                               queue |-> queue], max_depth)
       IN  /\ indirect_by_level' = st.ibl
           /\ visited' = st.visited
           /\ queue' = st.queue
    /\ UNCHANGED <<pc, impl, graphVars, resolveVars, max_depth, result, extractVars, normVars, buildVars, graph_file, workers>>

\* the queue is empty: return dict(indirect_by_level)
BfsReturn ==
    /\ pc = "bfs"
    /\ queue = << >>
    /\ result' = indirect_by_level
    /\ pc' = "done"
    /\ UNCHANGED <<impl, graphVars, resolveVars, max_depth, indirect_by_level,
                   visited, queue, extractVars, normVars, buildVars, graph_file, workers>>

(***************************************************************************)
(* The analysis run: load, resolve, traverse.                              *)
(***************************************************************************)
\* the run of src/scripts/analyze_circular_references.py; the analyzer of
\* src/analyze_circular_references.py differs from it in the fuzzy matcher
AnalyzerInit(impls, files) ==
    /\ pc = "start"
    /\ impl \in impls
    /\ nodes = << >>
    /\ edges = << >>
    /\ reference_map = EmptyDict
    /\ circular_to_node = EmptyDict
    /\ circular_references = {}
    /\ direct_refs = << >>
    /\ max_depth = default_max_depth
    /\ indirect_by_level = EmptyDict
    /\ visited = {}
    /\ queue = << >>
    /\ result = EmptyDict
    /\ circular_number = << >>
    /\ references = {}
    /\ filtered_references = {}
    /\ n_in = << >>
    /\ n_out = << >>
    /\ g_nodes = << >>
    /\ g_edges = << >>
    /\ extraction_stats = NoStats
    /\ added = << >>
    /\ graph_file \in files
    /\ workers = NoWorkers

\* the snapshot files a build can have left on disk
SnapshotFiles == {GraphFile(data) : data \in Snapshots}

Init == AnalyzerInit({"scripts"}, SnapshotFiles)

Next ==
    \/ load_graph
    \/ find_direct_references
    \/ find_indirect_references
    \/ BfsStep
    \/ BfsReturn

Spec == Init /\ [][Next]_vars

\* the interpreter keeps running the script until it returns
LiveSpec == Spec /\ WF_vars(Next)

\* the same run of src/analyze_circular_references.py
LegacyInit == AnalyzerInit({"legacy"}, SnapshotFiles)
LegacySpec == LegacyInit /\ [][Next]_vars

\* the run up to the resolver, on candidates in the spelling of the PDF text
RawNext ==
    \/ load_graph
    \/ find_direct_references_raw

RawSpec == Init /\ [][RawNext]_vars

\* the same run started whether or not a build has left its file on disk
LoadInit == AnalyzerInit({"scripts"}, SnapshotFiles \cup {NoFile})
LoadSpec == LoadInit /\ [][Next]_vars

(***************************************************************************)
(* PDFCircularExtractor: the circular number of the document and the       *)
(* self-reference filter that ends extract_circular_references.            *)
(***************************************************************************)
sXl == <<"x">>
sXdY == <<"X", "-", "Y">>

\* what the header of a PDF can yield as circular number (<< >>: nothing found)
HeaderPool == {<< >>, sX, sXsY, sXY, sXdY, sXl}
\* what the patterns, or the language model, can find in the text
FoundPool == {sX, sY, sXsY, sXY, sXl}

FoundSets == {Range(o) : o \in SeqsNoDup(FoundPool, MaxCands)}

\* s.rstrip('.,;:')
RECURSIVE rstrip_punct(_)
rstrip_punct(s) ==
    IF s # << >> /\ s[Len(s)] \in {".", ",", ";", ":"}
    THEN rstrip_punct(SubSeq(s, 1, Len(s) - 1))
    ELSE s

\* src/scripts: cleaned.strip(), .rstrip('.,;:'), .replace(' ', '')
\* src: match.group(..).strip()
get_circular_number ==
    /\ pc = "extractor"
    /\ \E found \in HeaderPool :
          circular_number' = IF impl = "scripts"
                             THEN replace_spaces(rstrip_punct(strip(found)))
                             ELSE strip(found)
    /\ pc' = "numbered"
    /\ UNCHANGED <<impl, graphVars, resolveVars, traverseVars, references,
                   filtered_references, normVars, buildVars, graph_file, workers>>

\* src/scripts: a reference is dropped when its normal form is that of the
\* document's own number
FilterScripts(circ, refs) ==
    LET current_circ_normalized == normalize_circular_no(circ)
    IN  {ref \in refs : ~(/\ current_circ_normalized # << >>
                          /\ current_circ_normalized = normalize_circular_no(ref))}

\* src: a reference is dropped when it contains, or is contained in, the
\* document's own number cut at its first '(' and first '-'
FilterLegacy(circ, refs) ==
    LET current_circ_short ==
            IF circ # << >> THEN strip(SplitFirst(SplitFirst(circ, "("), "-")) ELSE << >>
    IN  {ref \in refs : ~(/\ current_circ_short # << >>
                          /\ \/ IsSubstring(current_circ_short, ref)
                             \/ IsSubstring(ref, current_circ_short))}

extract_circular_references ==
    /\ pc = "numbered"
    /\ \E found \in FoundSets :
          LET refs == IF impl = "scripts" THEN {replace_spaces(ref) : ref \in found}
                      ELSE found
          IN  /\ references' = refs
              /\ filtered_references' = IF impl = "scripts"
                                        THEN FilterScripts(circular_number, refs)
                                        ELSE FilterLegacy(circular_number, refs)
    /\ pc' = "extracted"
    /\ UNCHANGED <<impl, graphVars, resolveVars, traverseVars, circular_number, normVars, buildVars, graph_file, workers>>

ExtractInit ==
    /\ pc = "extractor"
    /\ impl \in {"scripts", "legacy"}
    /\ nodes = << >>
    /\ edges = << >>
    /\ reference_map = EmptyDict
    /\ circular_to_node = EmptyDict
    /\ circular_references = {}
    /\ direct_refs = << >>
    /\ max_depth = default_max_depth
    /\ indirect_by_level = EmptyDict
    /\ visited = {}
    /\ queue = << >>
    /\ result = EmptyDict
    /\ circular_number = << >>
    /\ references = {}
    /\ filtered_references = {}
    /\ n_in = << >>
    /\ n_out = << >>
    /\ g_nodes = << >>
    /\ g_edges = << >>
    /\ extraction_stats = NoStats
    /\ added = << >>
    /\ graph_file = NoFile
    /\ workers = NoWorkers

ExtractNext ==
    \/ get_circular_number
    \/ extract_circular_references

ExtractSpec == ExtractInit /\ [][ExtractNext]_vars

(***************************************************************************)
(* The normaliser applied to a string, and again to what it returned.      *)
(***************************************************************************)
NormArg == IF n_out = << >> THEN n_in ELSE n_out[Len(n_out)]

call_normalize_circular_no ==
    /\ pc = "normalizer"
    /\ Len(n_out) < 2
    /\ n_out' = Append(n_out, normalize_circular_no(NormArg))
    /\ UNCHANGED <<pc, impl, graphVars, resolveVars, traverseVars, extractVars, n_in,
                   buildVars, graph_file, workers>>

call_normalize ==
    /\ pc = "normalizer"
    /\ Len(n_out) < 2
    /\ n_out' = Append(n_out, normalize(NormArg))
    /\ UNCHANGED <<pc, impl, graphVars, resolveVars, traverseVars, extractVars, n_in,
                   buildVars, graph_file, workers>>

NormInit ==
    /\ pc = "normalizer"
    /\ impl = "scripts"
    /\ nodes = << >>
    /\ edges = << >>
    /\ reference_map = EmptyDict
    /\ circular_to_node = EmptyDict
    /\ circular_references = {}
    /\ direct_refs = << >>
    /\ max_depth = default_max_depth
    /\ indirect_by_level = EmptyDict
    /\ visited = {}
    /\ queue = << >>
    /\ result = EmptyDict
    /\ circular_number = << >>
    /\ references = {}
    /\ filtered_references = {}
    /\ n_in \in StringsUpTo(MaxLen)
    /\ n_out = << >>
    /\ g_nodes = << >>
    /\ g_edges = << >>
    /\ extraction_stats = NoStats
    /\ added = << >>
    /\ graph_file = NoFile
    /\ workers = NoWorkers

NormNext ==
    \/ call_normalize_circular_no
    \/ call_normalize

NormSpec == NormInit /\ [][NormNext]_vars

(***************************************************************************)
(* CircularKnowledgeGraph and the build loop of main: process_circular per *)
(* PDF, then export_to_json.  An entry of g_nodes is a key of self.nodes   *)
(* with the dict stored under it ('title', 'date' and the edge fields      *)
(* 'source_circular_no' and 'type' are carried along unread and left out). *)
(***************************************************************************)
MaxDocs == 2     \* most PDFs one build attempts

\* what process_circular hands to add_circular; references is the set in
\* the order it is iterated
DocTuples == [filename : NodeIdPool, circular_no : CircPool, references : RefLists]

GKeys(ns) == {ns[i].key : i \in 1..Len(ns)}

\* self.nodes[node_id] = {...}: a known key keeps its position
GPut(ns, key, data) ==
    IF key \in GKeys(ns)
    THEN [i \in 1..Len(ns) |-> IF ns[i].key = key THEN [key |-> key, data |-> data] ELSE ns[i]]
    ELSE Append(ns, [key |-> key, data |-> data])

\* a mutant: a document whose circular_no a node already carries is skipped
AddCircularUnlessSameNumber(g, doc) ==
    IF \E i \in 1..Len(g.nodes) : g.nodes[i].data.circular_no = doc.circular_no
    THEN g
    ELSE [nodes |-> GPut(g.nodes, doc.filename,
                        [filename |-> doc.filename, circular_no |-> doc.circular_no,
                         references |-> doc.references,
                         reference_count |-> Len(doc.references)]),
          edges |-> g.edges \o
                    [i \in 1..Len(doc.references) |->
                        [source |-> doc.filename, target_reference |-> doc.references[i]]]]

\* the node is stored under its file name, then one edge per reference is
\* appended to self.edges
add_circular(g, doc) ==
    [nodes |-> GPut(g.nodes, doc.filename,
                   [filename |-> doc.filename, circular_no |-> doc.circular_no,
                    references |-> doc.references,
                    reference_count |-> Len(doc.references)]),
     edges |-> g.edges \o
               [i \in 1..Len(doc.references) |->
                   [source |-> doc.filename, target_reference |-> doc.references[i]]]]

\* a mutant: the exception is raised only after add_circular has run
TryBlockLateFailure(g, doc, outcome) ==
    IF outcome = "no_text" THEN g ELSE add_circular(g, doc)

\* the try block of process_circular: 'return False' on no text and on any
\* exception, both before add_circular is reached
TryBlock(g, doc, outcome) ==
    IF outcome = "added" THEN add_circular(g, doc) ELSE g

\* a mutant: the 'else' is missing, failed_extractions counts every document
ProcessCircularNoElse ==
    /\ pc = "build"
    /\ extraction_stats.successful_extractions + extraction_stats.failed_extractions
           < extraction_stats.total_pdfs
    /\ \E doc \in DocTuples, outcome \in {"added", "no_text", "exception"} :
          LET g == TryBlock([nodes |-> g_nodes, edges |-> g_edges], doc, outcome)
              success == outcome = "added"
          IN  /\ g_nodes' = g.nodes
              /\ g_edges' = g.edges
              /\ added' = IF success THEN Append(added, doc) ELSE added
              /\ extraction_stats' =
                     IF success
                     THEN [extraction_stats EXCEPT !.successful_extractions = @ + 1,
                                                   !.failed_extractions = @ + 1]
                     ELSE [extraction_stats EXCEPT !.failed_extractions = @ + 1]
    /\ UNCHANGED <<pc, impl, graphVars, resolveVars, traverseVars, extractVars, normVars,
                   graph_file, workers>>

\* one iteration of  for pdf_path in sorted(pdf_files)  with the counter
\* update that follows the call; pdf_files is the concatenation of two
\* globs, which lists a file twice where matching ignores case
process_circular ==
    /\ pc = "build"
    /\ extraction_stats.successful_extractions + extraction_stats.failed_extractions
           < extraction_stats.total_pdfs
    /\ \E doc \in DocTuples, outcome \in {"added", "no_text", "exception"} :
          LET g == TryBlock([nodes |-> g_nodes, edges |-> g_edges], doc, outcome)
              success == outcome = "added"
          IN  /\ g_nodes' = g.nodes
              /\ g_edges' = g.edges
              /\ added' = IF success THEN Append(added, doc) ELSE added
              /\ extraction_stats' =
                     IF success
                     THEN [extraction_stats EXCEPT !.successful_extractions = @ + 1]
                     ELSE [extraction_stats EXCEPT !.failed_extractions = @ + 1]
    /\ UNCHANGED <<pc, impl, graphVars, resolveVars, traverseVars, extractVars, normVars,
                   graph_file, workers>>

\* a mutant: the node is exported under its circular_no
ExportedNodesByNumber(ns) ==
    [i \in 1..Len(ns) |->
        [id |-> ns[i].data.circular_no, circular_no |-> ns[i].data.circular_no,
         references |-> ns[i].data.references,
         reference_count |-> ns[i].data.reference_count]]

\* [{'id': node_id, **node_data} for node_id, node_data in self.nodes.items()]
ExportedNodes(ns) ==
    [i \in 1..Len(ns) |->
        [id |-> ns[i].key, circular_no |-> ns[i].data.circular_no,
         references |-> ns[i].data.references,
         reference_count |-> ns[i].data.reference_count]]

\* after the loop: json.dump of the nodes and the edges
export_to_json ==
    /\ pc = "build"
    /\ extraction_stats.successful_extractions + extraction_stats.failed_extractions
           = extraction_stats.total_pdfs
    /\ graph_file' = GraphFile([nodes |-> ExportedNodes(g_nodes), edges |-> g_edges])
    /\ pc' = "start"
    /\ UNCHANGED <<impl, graphVars, resolveVars, traverseVars, extractVars, normVars,
                   buildVars, workers>>

BuildInit ==
    /\ pc = "build"
    /\ impl = "scripts"
    /\ nodes = << >>
    /\ edges = << >>
    /\ reference_map = EmptyDict
    /\ circular_to_node = EmptyDict
    /\ circular_references = {}
    /\ direct_refs = << >>
    /\ max_depth = default_max_depth
    /\ indirect_by_level = EmptyDict
    /\ visited = {}
    /\ queue = << >>
    /\ result = EmptyDict
    /\ circular_number = << >>
    /\ references = {}
    /\ filtered_references = {}
    /\ n_in = << >>
    /\ n_out = << >>
    /\ g_nodes = << >>
    /\ g_edges = << >>
    /\ \E n \in 1..MaxDocs : extraction_stats = [NoStats EXCEPT !.total_pdfs = n]
    /\ added = << >>
    /\ graph_file = NoFile
    /\ workers = NoWorkers

\* the build, then the analyzer started on the exported file
BuildNext ==
    \/ process_circular
    \/ export_to_json
    \/ load_graph

BuildSpec == BuildInit /\ [][BuildNext]_vars

(***************************************************************************)
(* Concurrent calls on one loaded analyzer.  Every call of a method has    *)
(* its own frame of locals; nodes, edges and the two indexes are the       *)
(* attributes all calls read.  workers.pc and workers.order are what each  *)
(* caller holds, workers.frame the locals of find_indirect_references,     *)
(* workers.direct_refs and workers.result the values returned to each      *)
(* caller.                                                                 *)
(***************************************************************************)
Workers == {"w1", "w2"}

Reverse(seq) == [i \in 1..Len(seq) |-> seq[Len(seq) + 1 - i]]

NoFrame == EmptyTraversal

\* a mutant: the locals are attributes of the analyzer, one set for all calls
FrameOnInstance(w) == "w1"

\* the frame the locals of worker w's call live in
FrameOf(w) == w

\* find_direct_references, called and returned
conc_find_direct_references ==
    /\ pc = "shared"
    /\ \E w \in Workers :
          /\ workers.pc[w] = "idle"
          /\ workers' = [workers EXCEPT !.pc[w] = "resolved",
                                        !.direct_refs[w] = ResolveAll(workers.order[w])]
          /\ reference_map' =
                 DefaultDictRead(reference_map,
                     UNION {Subscripted(workers.order[w][i]) : i \in 1..Len(workers.order[w])})
    /\ UNCHANGED <<pc, impl, nodes, edges, circular_to_node, resolveVars, traverseVars,
                   extractVars, normVars, buildVars, graph_file>>

\* find_indirect_references(direct_refs, max_depth=5): the call and the
\* initialisation loop
conc_find_indirect_references ==
    /\ pc = "shared"
    /\ \E w \in Workers :
          /\ workers.pc[w] = "resolved"
          /\ LET f == FrameOf(w)
                 st == SeedLoop(workers.direct_refs[w], EmptyTraversal)
             IN  workers' = [workers EXCEPT !.pc[w] = "bfs", !.frame[f] = st]
    /\ UNCHANGED <<pc, impl, graphVars, resolveVars, traverseVars, extractVars, normVars,
                   buildVars, graph_file>>

\* one iteration of  while queue  in one of the calls
conc_BfsStep ==
    /\ pc = "shared"
    /\ \E w \in Workers :
          /\ workers.pc[w] = "bfs"
          /\ workers.frame[FrameOf(w)].queue # << >>
          /\ LET f == FrameOf(w)
                 st == BfsIteration(workers.frame[f], default_max_depth)
             IN  workers' = [workers EXCEPT !.frame[f] = st]
    /\ UNCHANGED <<pc, impl, graphVars, resolveVars, traverseVars, extractVars, normVars,
                   buildVars, graph_file>>

\* return dict(indirect_by_level)
conc_BfsReturn ==
    /\ pc = "shared"
    /\ \E w \in Workers :
          /\ workers.pc[w] = "bfs"
          /\ workers.frame[FrameOf(w)].queue = << >>
          /\ workers' = [workers EXCEPT !.pc[w] = "done",
                                        !.result[w] = workers.frame[FrameOf(w)].ibl]
    /\ UNCHANGED <<pc, impl, graphVars, resolveVars, traverseVars, extractVars, normVars,
                   buildVars, graph_file>>

\* the candidate sets of full size, in every iteration order
ConcOrders == {o \in CandOrders : \A o2 \in CandOrders : Len(o2) <= Len(o)}

\* an analyzer loaded from a snapshot; two callers hold the same candidate
\* set, which the second iterates in the opposite order
ConcInit ==
    /\ pc = "shared"
    /\ impl = "scripts"
    /\ \E data \in Snapshots :
          /\ graph_file = GraphFile(data)
          /\ nodes = NodeDict(data.nodes, << >>)
          /\ edges = data.edges
          /\ reference_map = BuildReferenceMap(data.edges, EmptyDict)
          /\ circular_to_node = BuildCircularToNode(NodeDict(data.nodes, << >>), EmptyDict)
    /\ circular_references = {}
    /\ direct_refs = << >>
    /\ max_depth = default_max_depth
    /\ indirect_by_level = EmptyDict
    /\ visited = {}
    /\ queue = << >>
    /\ result = EmptyDict
    /\ circular_number = << >>
    /\ references = {}
    /\ filtered_references = {}
    /\ n_in = << >>
    /\ n_out = << >>
    /\ g_nodes = << >>
    /\ g_edges = << >>
    /\ extraction_stats = NoStats
    /\ added = << >>
    /\ \E order \in ConcOrders :
          workers = [pc |-> [w \in Workers |-> "idle"],
                     order |-> [w \in Workers |-> IF w = "w1" THEN order ELSE Reverse(order)],
                     frame |-> [w \in Workers |-> NoFrame],
                     direct_refs |-> [w \in Workers |-> << >>],
                     result |-> [w \in Workers |-> EmptyDict]]

ConcNext ==
    \/ conc_find_direct_references
    \/ conc_find_indirect_references
    \/ conc_BfsStep
    \/ conc_BfsReturn

ConcSpec == ConcInit /\ [][ConcNext]_vars

(***************************************************************************)
(* Properties of the traversal.                                            *)
(***************************************************************************)
Levels(r) == DOMAIN r
AllListed(r) == UNION {r[k] : k \in DOMAIN r}

\* two nodes of the loaded graph cite each other by id or by circular_no
Cites(a, b) == b.id \in Range(a.references) \/ b.circular_no \in Range(a.references)
HasCycle ==
    \E i, j \in 1..Len(nodes) : i # j /\ Cites(nodes[i], nodes[j]) /\ Cites(nodes[j], nodes[i])

\* C1: for every loaded graph, cyclic ones included, every dict of direct
\* references and every max_depth, the traversal loop of
\* find_indirect_references is left: the queue runs empty and the result is
\* returned.
C1_Terminates == <>(pc = "done" /\ queue = << >>)

\* a traversal over a cyclic graph that found indirect references returned
C1_Witness == pc = "done" /\ HasCycle /\ Levels(result) # {} /\ max_depth = default_max_depth

\* C2: in the returned result no two identifiers of two different levels
\* have the same normal form, and no identifier of any level has the normal
\* form of a direct-reference candidate.
C2_NoDuplicateByNormalForm ==
    pc = "done" =>
        /\ \A k1, k2 \in Levels(result) :
              k1 # k2 => \A a \in result[k1], b \in result[k2] : normalize(a) # normalize(b)
        /\ \A a \in AllListed(result), c \in circular_references :
              normalize(a) # normalize(c)

\* Scenario A: node X cites Y, node Y cites X, the direct reference is Y,
\* max_depth is 5
ScenarioA ==
    /\ Len(nodes) = 2
    /\ \E i, j \in 1..2 :
          /\ nodes[i].id = sX /\ nodes[i].references = <<sY>>
          /\ nodes[j].id = sY /\ nodes[j].references = <<sX>>
    /\ circular_references = {sY}
    /\ max_depth = 5

\* C3: on Scenario A the traversal returns and no level of its result holds
\* X or Y.
C3_ScenarioA ==
    (pc = "done" /\ ScenarioA) => \A k \in Levels(result) : sX \notin result[k] /\ sY \notin result[k]

\* C4: with max_depth <= 1 the returned result is empty.
C4_EmptyAtDepthOne == (pc = "done" /\ max_depth <= 1) => result = EmptyDict

C6_SelfFilterExact ==
    pc = "extracted" =>
        filtered_references =
            {ref \in references :
                ~(/\ normalize_circular_no(circular_number) # << >>
                  /\ normalize_circular_no(ref) = normalize_circular_no(circular_number))}

(***************************************************************************)
(* Properties of the resolver.                                             *)
(***************************************************************************)
Resolved == pc = "resolved"
Entries == Range(direct_refs)

\* what the graph itself says about a candidate, read off nodes and edges
IsNodeId(ref) == \E i \in 1..Len(nodes) : nodes[i].id = ref
Declarers(ref) == {nodes[i].id : i \in {k \in 1..Len(nodes) :
                      nodes[k].circular_no # << >> /\ nodes[k].circular_no = ref}}
IsDeclared(ref) == Declarers(ref) # {}
Citers(ref) == {edges[i].source : i \in {k \in 1..Len(edges) : edges[k].target_reference = ref}}
IsCited(ref) == Citers(ref) # {}
IsFuzzy(ref) == fuzzy_match_reference(ref) # << >>

\* C7: every candidate gets the outcome of the first rule it satisfies, in
\* the order node id, circular_no of a node, target of an edge, fuzzy
\* match, none.
C7_FirstMatchWins ==
    Resolved =>
        \A e \in Entries :
            /\ IsNodeId(e.ref) => e.type = "in_graph" /\ e.node_id = e.ref
            /\ (~IsNodeId(e.ref) /\ IsDeclared(e.ref)) =>
                   e.type = "in_graph" /\ e.node_id \in Declarers(e.ref)
            /\ (~IsNodeId(e.ref) /\ ~IsDeclared(e.ref) /\ IsCited(e.ref)) =>
                   e.type = "referenced_external"
            /\ (~IsNodeId(e.ref) /\ ~IsDeclared(e.ref) /\ ~IsCited(e.ref) /\ IsFuzzy(e.ref)) =>
                   e.type = "fuzzy_match"
            /\ (~IsNodeId(e.ref) /\ ~IsDeclared(e.ref) /\ ~IsCited(e.ref) /\ ~IsFuzzy(e.ref)) =>
                   e.type = "external"

\* a candidate that is a circular_no, an edge target and a fuzzy match at
\* once, but no node id, was resolved
C7_Witness ==
    /\ pc = "resolved"
    /\ \E e \in Entries :
          /\ ~IsNodeId(e.ref) /\ IsDeclared(e.ref) /\ IsCited(e.ref) /\ IsFuzzy(e.ref)
          /\ e.type = "in_graph"

\* the candidate agrees with the circular_no of some node once both are
\* normalised
AliasByNormalForm(ref) ==
    \E i \in 1..Len(nodes) :
        /\ nodes[i].circular_no # << >>
        /\ normalize(nodes[i].circular_no) = normalize(ref)

C9_OneEntryPerCandidate ==
    Resolved =>
        /\ {e.ref : e \in Entries} = circular_references
        /\ Len(direct_refs) = Cardinality(circular_references)
        /\ \A e \in Entries :
              e.type \in {"in_graph", "referenced_external", "fuzzy_match", "external"}

\* two candidates were resolved, one of them as matching nothing
C9_Witness ==
    /\ pc = "resolved"
    /\ Cardinality(circular_references) = 2
    /\ \E e \in Entries : e.type = "external"

(***************************************************************************)
(* Properties of the normaliser.                                           *)
(***************************************************************************)
\* C10: normalising an already normalised identifier changes nothing.
C10_Idempotent == Len(n_out) = 2 => n_out[2] = n_out[1]

\* the normaliser ran twice on a string its first run had to change
C10_Witness == Len(n_out) = 2 /\ n_out[1] # n_in /\ n_out[1] # << >>

(***************************************************************************)
(* Properties of the builder.                                              *)
(***************************************************************************)
EdgeCount(es, src, tgt) ==
    Cardinality({i \in 1..Len(es) : es[i].source = src /\ es[i].target_reference = tgt})
EntryCount(ns, src, tgt) ==
    Cardinality({ij \in (1..Len(ns)) \X (1..MaxRefs) :
                    /\ ns[ij[1]].key = src
                    /\ ij[2] <= Len(ns[ij[1]].data.references)
                    /\ ns[ij[1]].data.references[ij[2]] = tgt})

\* C11: whatever add_circular calls were made, ids reused or not, the edge
\* list holds, for every node and every entry of its references, exactly
\* one edge from the node to that entry, and no other edge.
C11_OneEdgePerReference ==
    \A src \in NodeIdPool, tgt \in RefPool :
        EdgeCount(g_edges, src, tgt) = EntryCount(g_nodes, src, tgt)

PairsOf(es) == {<<es[i].source, es[i].target_reference>> : i \in 1..Len(es)}

\* C12: the graph the analyzer loads from the exported file has the node
\* ids of the built graph, under each id the same circular_no, references
\* and reference_count, and the same set of (source, target) pairs.
C12_RoundTrip ==
    pc = "loaded" =>
        /\ NodeIds(nodes) = GKeys(g_nodes)
        /\ Len(nodes) = Len(g_nodes)
        /\ \A i \in 1..Len(g_nodes) :
              \E j \in 1..Len(nodes) :
                  /\ nodes[j].id = g_nodes[i].key
                  /\ nodes[j].circular_no = g_nodes[i].data.circular_no
                  /\ nodes[j].references = g_nodes[i].data.references
                  /\ nodes[j].reference_count = g_nodes[i].data.reference_count
        /\ PairsOf(edges) = PairsOf(g_edges)

\* a graph of two nodes with edges was exported and loaded
C12_Witness == pc = "loaded" /\ Len(g_nodes) = 2 /\ g_edges # << >>

RECURSIVE BuildAll(_, _)
BuildAll(docs, g) ==
    IF docs = << >> THEN g ELSE BuildAll(Tail(docs), add_circular(g, Head(docs)))

Orders(n) == {p \in SeqsNoDup(1..n, n) : Len(p) = n}
DistinctIds(docs) ==
    \A i, j \in 1..Len(docs) : i # j => docs[i].filename # docs[j].filename

\* C16: when the documents added so far have pairwise distinct ids, adding
\* them in any other order gives the same set of nodes and the same set of
\* edges.
C16_OrderInsensitive ==
    DistinctIds(added) =>
        \A p \in Orders(Len(added)) :
            LET g == BuildAll([i \in 1..Len(added) |-> added[p[i]]],
                              [nodes |-> << >>, edges |-> << >>])
            IN  /\ Range(g.nodes) = Range(g_nodes)
                /\ Range(g.edges) = Range(g_edges)

\* two documents with different ids, each with references, were added
C16_Witness ==
    /\ Len(added) = 2
    /\ DistinctIds(added)
    /\ \A i \in 1..2 : added[i].references # << >>

\* C18: a step that counts a failed document leaves nodes and edges as
\* they were and changes no counter but failed_extractions, by one.
C18_FailureAddsNothing ==
    [][extraction_stats'.failed_extractions # extraction_stats.failed_extractions =>
          /\ g_nodes' = g_nodes
          /\ g_edges' = g_edges
          /\ extraction_stats' = [extraction_stats EXCEPT !.failed_extractions = @ + 1]]_vars

\* a document failed after another one had been added
C18_Witness ==
    /\ extraction_stats.failed_extractions = 1
    /\ extraction_stats.successful_extractions = 1
    /\ g_nodes # << >>

(***************************************************************************)
(* Properties of the loaded graph.                                         *)
(***************************************************************************)
\* the positions, in load order, of the nodes that declare circular_no c
DeclarerPositions(c) == {i \in 1..Len(nodes) : nodes[i].circular_no = c}
LastDeclarer(c) ==
    nodes[CHOOSE i \in DeclarerPositions(c) : \A j \in DeclarerPositions(c) : j <= i].id

\* a node the alias index does not lead to although it declares a number
IsHidden(n) ==
    /\ n.circular_no # << >>
    /\ circular_to_node[n.circular_no] # n.id

\* C13: the alias index holds, for every non-empty circular_no declared,
\* one node id: that of the node loaded last among its declarers; and a
\* candidate that is the id of a node hidden this way resolves as that
\* in-graph node.
C13_LastDeclarerWins ==
    /\ pc = "loaded" =>
          /\ DOMAIN circular_to_node =
                 {nodes[i].circular_no : i \in 1..Len(nodes)} \ {<< >>}
          /\ \A c \in DOMAIN circular_to_node : circular_to_node[c] = LastDeclarer(c)
    /\ pc = "resolved" =>
          \A i \in 1..Len(nodes) :
              (IsHidden(nodes[i]) /\ nodes[i].id \in circular_references) =>
                  \E e \in Entries :
                      /\ e.ref = nodes[i].id
                      /\ e.type = "in_graph"
                      /\ e.node_id = nodes[i].id
                      /\ e.references = nodes[i].references

\* two nodes declare one circular_no and the id of the hidden one was a
\* candidate
C13_Witness ==
    /\ pc = "resolved"
    /\ \E i \in 1..Len(nodes) : IsHidden(nodes[i]) /\ nodes[i].id \in circular_references

\* C14: no step of find_direct_references or find_indirect_references
\* changes nodes, edges, reference_map or circular_to_node.
C14_GraphUntouched ==
    [][(pc \in {"loaded", "resolved", "bfs"}) => (graphVars' = graphVars)]_vars

\* a traversal returned after resolving a candidate no index knows
C14_Witness ==
    /\ pc = "done"
    /\ nodes # << >>
    /\ \E e \in Entries : e.type = "external"
    /\ Levels(result) # {}

\* C17: when the file is missing the constructor raises out of load_graph:
\* the run gets no further than that, nothing is resolved or traversed and
\* no analyzer over an empty graph exists.
C17_MissingFileRaises ==
    ~graph_file.exists =>
        /\ pc \in {"start", "raised"}
        /\ direct_refs = << >>
        /\ result = EmptyDict

\* the constructor raised
C17_Witness == pc = "raised" /\ ~graph_file.exists

(***************************************************************************)
(* Properties of the fuzzy rule and of the seeding.                        *)
(***************************************************************************)
\* the ids of the nodes whose normalised circular_no contains the
\* normalised candidate or is contained in it
ContainmentMatches(ref) ==
    {nodes[i].id : i \in {k \in 1..Len(nodes) :
        \/ IsSubstring(normalize(ref), normalize(nodes[k].circular_no))
        \/ IsSubstring(normalize(nodes[k].circular_no), normalize(ref))}}

\* C19: a candidate none of the first three rules matched is a fuzzy match
\* listing exactly the nodes whose normalised circular_no contains its
\* normal form or is contained in it; when there is none it is external,
\* with no node, no matches and no references.
C19_FuzzyExact ==
    Resolved =>
        \A e \in Entries :
            (~IsNodeId(e.ref) /\ ~IsDeclared(e.ref) /\ ~IsCited(e.ref)) =>
                IF ContainmentMatches(e.ref) # {}
                THEN /\ e.type = "fuzzy_match"
                     /\ Range(e.matches) = ContainmentMatches(e.ref)
                     /\ Len(e.matches) = Cardinality(ContainmentMatches(e.ref))
                ELSE /\ e.type = "external"
                     /\ e.node_id = NoValue
                     /\ e.matches = NoValue
                     /\ e.references = << >>

\* C20: no identifier of any level of the result is, character for
\* character, a direct-reference candidate.
C20_SeedsVisitedFirst ==
    pc = "done" => AllListed(result) \cap circular_references = {}

(***************************************************************************)
(* Properties of concurrent calls.                                         *)
(***************************************************************************)
\* what a caller gets when its two calls run with no other call around
AloneDirect(w) == ResolveAll(workers.order[w])
AloneResult(w) == RunBfs(SeedLoop(AloneDirect(w), EmptyTraversal), default_max_depth)

\* C15: however the steps of the calls interleave, the graph stays the one
\* that was loaded, every find_direct_references returns what it returns
\* when run alone and so does every find_indirect_references.
C15_SameAsAlone ==
    pc = "shared" =>
        /\ nodes = NodeDict(graph_file.nodes, << >>)
        /\ edges = graph_file.edges
        /\ reference_map = BuildReferenceMap(graph_file.edges, EmptyDict)
        /\ circular_to_node = BuildCircularToNode(nodes, EmptyDict)
        /\ \A w \in Workers :
              /\ workers.pc[w] \in {"resolved", "bfs", "done"} =>
                     workers.direct_refs[w] = AloneDirect(w)
              /\ workers.pc[w] = "done" => workers.result[w] = AloneResult(w)

\* both calls returned, with results that differ and one that found an
\* indirect reference
C15_Witness ==
    /\ pc = "shared"
    /\ \A w \in Workers : workers.pc[w] = "done"
    /\ \E w \in Workers : AllListed(workers.result[w]) # {}
    /\ workers.result["w1"] # workers.result["w2"]

(***************************************************************************)
(* Further properties of the traversal.                                    *)
(***************************************************************************)
\* the references of the node a queued identifier stands for
NodeRefsOf(ref) ==
    IF LookupNode(ref) = NoValue THEN << >> ELSE NodeAt(nodes, LookupNode(ref)).references

\* C21: with max_depth >= 2 no level below 2 and none above max_depth is
\* ever recorded or returned, and the iteration that dequeues an identifier
\* of level max_depth records nothing and marks nothing, the identifier
\* staying in its level.
C21_DepthBound ==
    /\ []((pc \in {"bfs", "done"} /\ max_depth >= 2) =>
              /\ Levels(indirect_by_level) \subseteq 2..max_depth
              /\ Levels(result) \subseteq 2..max_depth)
    /\ [][(pc = "bfs" /\ queue # << >> /\ Head(queue)[2] = max_depth) =>
              (/\ indirect_by_level' = indirect_by_level
               /\ visited' = visited
               /\ Head(queue)[1] \in indirect_by_level'[max_depth])]_vars

\* a call with max_depth 2 returned an identifier whose node cites one that
\* was never visited
C21_Witness ==
    /\ pc = "done"
    /\ max_depth = 2
    /\ \E ref \in AllListed(result) : Range(NodeRefsOf(ref)) \ visited # {}

\* the identifiers waiting in a queue, in order
QueueRefs(q) == [i \in 1..Len(q) |-> q[i][1]]

\* C22: the queue never holds an identifier twice and holds visited
\* identifiers only; an iteration of the loop removes the head, never
\* shrinks the visited set, and appends only identifiers that were not
\* visited before it, marking them visited.  An identifier that was
\* dequeued is visited, so it is never enqueued, hence never dequeued,
\* again.
C22_EnqueuedOnce ==
    /\ [](pc = "bfs" =>
              /\ \A i, j \in 1..Len(queue) : i # j => queue[i][1] # queue[j][1]
              /\ Range(QueueRefs(queue)) \subseteq visited)
    /\ [][(pc = "bfs" /\ queue # << >>) =>
              (/\ visited \subseteq visited'
               /\ Len(queue') >= Len(queue) - 1
               /\ SubSeq(queue', 1, Len(queue) - 1) = Tail(queue)
               /\ \A i \in Len(queue)..Len(queue') :
                      queue'[i][1] \notin visited /\ queue'[i][1] \in visited')]_vars

\* a traversal returned after it came upon a reference to an identifier it
\* had visited already
C22_Witness ==
    /\ pc = "done"
    /\ max_depth = default_max_depth
    /\ \E k \in Levels(result) : \E ref \in result[k] : \E r \in Range(NodeRefsOf(ref)) :
          r \in circular_references \/ \E k2 \in Levels(result) : k2 <= k /\ r \in result[k2]

\* the identifiers recorded at a level, none if the level has no entry
AtLevel(ibl, k) == IF k \in DOMAIN ibl THEN ibl[k] ELSE {}

\* C23: every identifier of level 2 is a reference of the node of some
\* direct reference of type in_graph; the entries of the three other types
\* put nothing into level 2, whatever the nodes they fuzzy-match cite.
C23_SeededFromInGraphOnly ==
    pc \in {"bfs", "done"} =>
        \A r \in AtLevel(indirect_by_level, 2) :
            \E e \in Entries :
                /\ e.type = "in_graph"
                /\ r \in Range(NodeAt(nodes, e.node_id).references)

\* a traversal returned whose direct references hold a fuzzy match on a
\* node that cites an identifier level 2 does not hold
C23_Witness ==
    /\ pc = "done"
    /\ \E e \in Entries :
          /\ e.type = "fuzzy_match"
          /\ \E m \in Range(e.matches) :
                 Range(NodeAt(nodes, m).references) \ AtLevel(result, 2) # {}

\* an identifier that is neither the id of a node nor a key of
\* circular_to_node
IsUnknown(ref) == ref \notin NodeIds(nodes) /\ ref \notin DOMAIN circular_to_node

\* C24: the iteration that dequeues an identifier which is neither a node id
\* nor a key of circular_to_node records nothing and marks nothing, whether
\* or not the identifier contains, or is contained in, the circular_no of a
\* node.
C24_NoFuzzyMidTraversal ==
    [][(pc = "bfs" /\ queue # << >> /\ IsUnknown(Head(queue)[1])) =>
          (/\ indirect_by_level' = indirect_by_level
           /\ visited' = visited
           /\ queue' = Tail(queue))]_vars

\* a traversal of full depth returned an identifier that is neither id nor
\* alias and fuzzy-matches a node citing an identifier never visited
C24_Witness ==
    /\ pc = "done"
    /\ max_depth = default_max_depth
    /\ \E ref \in AllListed(result) :
          /\ IsUnknown(ref)
          /\ \E m \in Range(fuzzy_match_reference(ref)) :
                 /\ NodeAt(nodes, m).circular_no # << >>
                 /\ Range(NodeAt(nodes, m).references) \ visited # {}

(***************************************************************************)
(* Further properties of the resolver.                                     *)
(***************************************************************************)
\* two identifiers that agree once case and blanks are ignored
SameIgnoringCaseAndSpaces(a, b) == upper(replace_spaces(a)) = upper(replace_spaces(b))

\* the sources of the edges whose target is the candidate up to case and
\* blanks
CitersIgnoringCase(ref) ==
    {edges[i].source : i \in {k \in 1..Len(edges) :
        SameIgnoringCaseAndSpaces(edges[k].target_reference, ref)}}

\* C25: a candidate that is neither a node id nor the circular_no of a node
\* and that agrees, case and blanks ignored, with the target of some edge
\* resolves as referenced_external; its entry lists exactly the sources of
\* the edges with that target and has an empty references list.
C25_ExternallyReferenced ==
    Resolved =>
        \A e \in Entries :
            (~IsNodeId(e.ref) /\ ~IsDeclared(e.ref) /\ CitersIgnoringCase(e.ref) # {}) =>
                /\ e.type = "referenced_external"
                /\ Range(e.referenced_by) = CitersIgnoringCase(e.ref)
                /\ e.references = << >>

(***************************************************************************)
(* Further properties of load_graph.                                       *)
(***************************************************************************)
\* how often a value occurs in a list
Occurrences(list, v) == Cardinality({i \in 1..Len(list) : list[i] = v})

\* C26: once load_graph has run, reference_map has exactly the targets of
\* the edges as keys and lists under each, once per edge, the sources of
\* the edges with that target; circular_to_node has exactly the non-empty
\* circular_no values of the nodes as keys, each mapped to the id of a node
\* that carries it.
C26_IndexesFromGraph ==
    pc = "loaded" =>
        /\ DOMAIN reference_map = {edges[i].target_reference : i \in 1..Len(edges)}
        /\ \A t \in DOMAIN reference_map :
              /\ Len(reference_map[t]) =
                     Cardinality({i \in 1..Len(edges) : edges[i].target_reference = t})
              /\ \A src \in NodeIdPool :
                     Occurrences(reference_map[t], src) = EdgeCount(edges, src, t)
        /\ DOMAIN circular_to_node =
               {nodes[i].circular_no : i \in 1..Len(nodes)} \ {<< >>}
        /\ \A c \in DOMAIN circular_to_node : circular_to_node[c] \in Declarers(c)

\* a graph was loaded in which one node cites one target by two edges and
\* carries a circular_no
C26_Witness ==
    /\ pc = "loaded"
    /\ DOMAIN circular_to_node # {}
    /\ \E t \in DOMAIN reference_map : \E i, j \in 1..Len(reference_map[t]) :
          i # j /\ reference_map[t][i] = reference_map[t][j]

(***************************************************************************)
(* Properties of the traversal result.                                     *)
(***************************************************************************)
\* the orders in which the dict of the resolved candidates can be iterated
OrdersOf(cands) == {o \in CandOrders : Range(o) = cands /\ Len(o) = Cardinality(cands)}

\* C27: the returned result is the one find_indirect_references returns
\* for the same candidates on the same graph whatever the order in which
\* the dict of direct references is iterated.
C27_OrderIndependent ==
    pc = "done" =>
        \A o \in OrdersOf(circular_references) :
            RunBfs(SeedLoop(ResolveAll(o), EmptyTraversal), max_depth) = result

\* C28: every identifier of level 2 is a reference of the node of an
\* in_graph direct reference; every identifier of a level k >= 3 is a
\* reference of the node that some identifier of level k-1 names by id or
\* by circular_no; no level is empty and a level k >= 3 exists only
\* together with level k-1.
C28_LevelsJustified ==
    pc \in {"bfs", "done"} =>
        /\ \A k \in Levels(indirect_by_level) :
              /\ k >= 2
              /\ indirect_by_level[k] # {}
              /\ k >= 3 => (k - 1) \in Levels(indirect_by_level)
        /\ \A k \in Levels(indirect_by_level) : \A r \in indirect_by_level[k] :
              IF k = 2
              THEN \E e \in Entries :
                      e.type = "in_graph" /\ r \in Range(NodeAt(nodes, e.node_id).references)
              ELSE \E p \in AtLevel(indirect_by_level, k - 1) : r \in Range(NodeRefsOf(p))
        /\ pc = "done" => result = indirect_by_level

\* a traversal returned a result with a level 3
C28_Witness == pc = "done" /\ AtLevel(result, 3) # {}

(***************************************************************************)
(* Properties of the fuzzy matcher.                                        *)
(***************************************************************************)
\* C29: every node _fuzzy_match_reference returned for a candidate has a
\* circular_no whose normal form is not empty, the normal form of the
\* candidate is not empty either, and one of the two contains the other.
C29_FuzzyNeedsNonEmpty ==
    Resolved =>
        \A e \in Entries :
            e.type = "fuzzy_match" =>
                \A m \in Range(e.matches) :
                    LET ref_normalized == normalize(e.ref)
                        circ_no_normalized == normalize(NodeAt(nodes, m).circular_no)
                    IN  /\ ref_normalized # << >>
                        /\ circ_no_normalized # << >>
                        /\ \/ IsSubstring(ref_normalized, circ_no_normalized)
                           \/ IsSubstring(circ_no_normalized, ref_normalized)

(***************************************************************************)
(* Properties of the build run.                                            *)
(***************************************************************************)
Successful == extraction_stats.successful_extractions
Failed == extraction_stats.failed_extractions

\* C30: every iteration of the build loop adds one to exactly one of
\* successful_extractions and failed_extractions and leaves total_pdfs
\* alone, a failed one leaving the node table as it was; the graph never
\* has more nodes than successful_extractions, and once the loop is left
\* the two counters add up to total_pdfs.
C30_Counters ==
    /\ [](/\ Len(g_nodes) <= Successful
          /\ Successful + Failed <= extraction_stats.total_pdfs
          /\ pc # "build" => Successful + Failed = extraction_stats.total_pdfs)
    /\ [][(pc = "build" /\ pc' = "build") =>
              (/\ extraction_stats'.total_pdfs = extraction_stats.total_pdfs
               /\ \/ /\ extraction_stats'.successful_extractions = Successful + 1
                     /\ extraction_stats'.failed_extractions = Failed
                  \/ /\ extraction_stats'.successful_extractions = Successful
                     /\ extraction_stats'.failed_extractions = Failed + 1
                     /\ g_nodes' = g_nodes)]_vars

\* a build was exported in which two documents succeeded and left one node
C30_Witness ==
    /\ pc # "build"
    /\ Successful = 2
    /\ Len(g_nodes) < Successful

====
